---- MODULE Spec2Model ----
(***************************************************************************)
(* Reconciliation of the Lidarr settings groups (general, media           *)
(* management, tags, metadata) against the server's REST API.              *)
(*                                                                         *)
(* Every from_remote / update_remote / delete_remote handler is one        *)
(* action.  A handler threads an API state [srv, calls, exc] through its   *)
(* API calls: srv is the server, calls the log of the calls of this        *)
(* handler invocation (with the response of every GET and the body of      *)
(* every write), exc the exception that is propagating ("ok" when none),    *)
(* evals the sub-resolvers evaluated so far.                               *)
(***************************************************************************)
EXTENDS Integers, Sequences, FiniteSets, TLC

VARIABLES
    group,      \* the settings group this run reconciles
    local,      \* the local (desired) configuration, never modified
    server,     \* the state of the Lidarr server
    remote,     \* the settings object returned by the last from_remote
    phase,      \* position of the reconciliation driver
    op,         \* the handler that ran last
    calls,      \* the API calls of the handler that ran last
    result,     \* its return value ("True", "False", "ok") or its exception
    pass,       \* number of the reconciliation pass
    touched,    \* the server was changed by someone else in this pass
    settled,    \* the last update_remote returned and nobody touched the server since
    second,     \* the last update_remote started from a settled server
    evals,      \* the sub-resolvers the handler that ran last evaluated
    codec       \* a value on its way through an attribute codec

vars == <<group, local, server, remote, phase, op, calls, result, pass,
          touched, settled, second, evals, codec>>

(***************************************************************************)
(* Values.  Python None is the string NoneValue; booleans and integers are *)
(* themselves; a comma-separated remote string is the sequence of its      *)
(* comma-separated tokens (the empty string is <<"">>).                    *)
(***************************************************************************)
NoneValue == "<None>"

Merge(a, b) ==
    [k \in (DOMAIN a) \cup (DOMAIN b) |-> IF k \in DOMAIN b THEN b[k] ELSE a[k]]

Range(s) == {s[i] : i \in DOMAIN s}

\* The order of Python's sorted() on the strings the model uses.
SortOrder == <<"", " a", "/a", "/b", "/c", "a", "b", "c">>

Rank(x) == CHOOSE i \in DOMAIN SortOrder : SortOrder[i] = x

RECURSIVE Sorted(_)
Sorted(S) ==
    IF S = {} THEN <<>>
    ELSE LET m == CHOOSE x \in S : \A y \in S : Rank(x) <= Rank(y)
         IN  <<m>> \o Sorted(S \ {m})

\* str.strip() on the tokens the model uses.
Strip(t) == IF t = " a" THEN "a" ELSE t

(***************************************************************************)
(* Enumerations: member name -> remote value.                              *)
(***************************************************************************)
EnumValue ==
    [none |-> "none", basic |-> "basic", form |-> "forms",
     enabled |-> "enabled", local_disabled |-> "disabledForLocalAddresses",
     disabled |-> "disabled",
     http |-> "http", socks4 |-> "socks4", socks5 |-> "socks5",
     INFO |-> "info", DEBUG |-> "debug", TRACE |-> "trace",
     builtin |-> "builtIn", script |-> "script", external |-> "external",
     apt |-> "apt", docker |-> "docker",
     prefer_and_upgrade |-> "preferAndUpgrade",
     do_not_upgrade_automatically |-> "doNotUpgrade",
     do_not_prefer |-> "doNotPrefer",
     always |-> "always", after_manual_refresh |-> "afterManual",
     never |-> "never",
     local_air_date |-> "localAirDate", utc_air_date |-> "utcAirDate",
     drwxr_xr_x |-> "755", drwxrwxr_x |-> "775", drwxrwx___ |-> "770",
     drwxr_x___ |-> "750", drwxrwxrwx |-> "777"]

EnumMember(v) == CHOOSE n \in DOMAIN EnumValue : EnumValue[n] = v

(***************************************************************************)
(* Mapping tables.  An entry is (local name, remote name, options); the    *)
(* options name the decoder, the encoder, the root_encoder and "optional". *)
(***************************************************************************)
Entry(l, r) ==
    [local |-> l, remote |-> r, decoder |-> "default", encoder |-> "default",
     root_encoder |-> "none", optional |-> FALSE]

EnumEntry(l, r) ==
    [Entry(l, r) EXCEPT !.decoder = "enum", !.encoder = "enum"]

OptionalTextEntry(l, r) ==
    [Entry(l, r) EXCEPT !.decoder = "or_none", !.encoder = "or_empty"]

OptionalSecretEntry(l, r) ==
    [Entry(l, r) EXCEPT !.decoder = "or_none", !.encoder = "secret_or_empty"]

HostGeneralSettings_remote_map ==
    << [Entry("bind_address", "bindAddress") EXCEPT !.encoder = "str"],
       Entry("port", "port"),
       Entry("ssl_port", "sslPort"),
       Entry("use_ssl", "enableSsl"),
       OptionalTextEntry("url_base", "urlBase"),
       Entry("instance_name", "instanceName") >>

\* Faulty variant: no entry of the security table is marked optional.
SecurityGeneralSettings_remote_map_all_required ==
    << EnumEntry("authentication", "authenticationMethod"),
       OptionalTextEntry("username", "username"),
       OptionalSecretEntry("password", "password"),
       [Entry("password_confirmation", "passwordConfirmation")
           EXCEPT !.decoder = "or_none", !.root_encoder = "password"],
       EnumEntry("certificate_validation", "certificateValidation") >>

SecurityGeneralSettings_remote_map ==
    << EnumEntry("authentication", "authenticationMethod"),
       [OptionalTextEntry("username", "username") EXCEPT !.optional = TRUE],
       [OptionalSecretEntry("password", "password") EXCEPT !.optional = TRUE],
       [Entry("password_confirmation", "passwordConfirmation")
           EXCEPT !.optional = TRUE, !.decoder = "or_none",
                  !.root_encoder = "password"],
       EnumEntry("certificate_validation", "certificateValidation") >>

ProxyGeneralSettings_remote_map ==
    << Entry("enable", "proxyEnabled"),
       EnumEntry("proxy_type", "proxyType"),
       OptionalTextEntry("hostname", "proxyHostname"),
       Entry("port", "proxyPort"),
       OptionalTextEntry("username", "proxyUsername"),
       OptionalSecretEntry("password", "proxyPassword"),
       [Entry("ignored_addresses", "proxyBypassFilter")
           EXCEPT !.decoder = "split", !.encoder = "join"],
       Entry("bypass_proxy_for_local_addresses", "proxyBypassLocalAddresses") >>

LoggingGeneralSettings_remote_map == << EnumEntry("log_level", "logLevel") >>

AnalyticsGeneralSettings_remote_map ==
    << Entry("send_anonymous_usage_data", "analyticsEnabled") >>

UpdatesGeneralSettings_remote_map ==
    << Entry("branch", "branch"),
       Entry("automatic", "updateAutomatically"),
       EnumEntry("mechanism", "updateMechanism"),
       OptionalTextEntry("script_path", "updateScriptPath") >>

BackupGeneralSettings_remote_map ==
    << Entry("folder", "backupFolder"),
       Entry("interval", "backupInterval"),
       Entry("retention", "backupRetention") >>

\* The sub-groups of the general settings, in the order update_remote resolves them.
GeneralGroups ==
    <<"host", "security", "proxy", "logging", "analytics", "updates", "backup">>

GeneralMap(g) ==
    CASE g = "host" -> HostGeneralSettings_remote_map
      [] g = "security" -> SecurityGeneralSettings_remote_map
      [] g = "proxy" -> ProxyGeneralSettings_remote_map
      [] g = "logging" -> LoggingGeneralSettings_remote_map
      [] g = "analytics" -> AnalyticsGeneralSettings_remote_map
      [] g = "updates" -> UpdatesGeneralSettings_remote_map
      [] g = "backup" -> BackupGeneralSettings_remote_map

naming_remote_map == << Entry("rename_tracks", "renameTracks") >>

mediamanagement_remote_map ==
    << Entry("delete_empty_folders", "deleteEmptyFolders"),
       Entry("skip_free_space_check", "skipFreeSpaceCheckWhenImporting"),
       Entry("minimum_free_space", "minimumFreeSpaceWhenImporting"),
       Entry("use_hardlinks", "copyUsingHardlinks"),
       Entry("import_extra_files", "importExtraFiles"),
       EnumEntry("propers_and_repacks", "downloadPropersAndRepacks"),
       EnumEntry("rescan_artist_folder_after_refresh", "rescanAfterRefresh"),
       EnumEntry("change_file_date", "fileDate"),
       OptionalTextEntry("recycling_bin", "recycleBin"),
       Entry("recycling_bin_cleanup", "recycleBinCleanupDays"),
       Entry("set_permissions", "setPermissionsLinux"),
       EnumEntry("chmod_folder", "chmodFolder"),
       OptionalTextEntry("chown_group", "chownGroup") >>

Metadata_base_remote_map == << Entry("enable", "enable") >>

Metadata_remote_map == << >>

\* local attribute -> _implementation, in the order of METADATA_TYPES.
MetadataAttrs == <<"kodi_emby", "roksbox", "wdtv">>

Implementation ==
    [kodi_emby |-> "XbmcMetadata", roksbox |-> "RoksboxMetadata",
     wdtv |-> "WdtvMetadata"]

RemoteNames(map) == {map[i].remote : i \in DOMAIN map}

EntryOf(map, rn) == map[CHOOSE i \in DOMAIN map : map[i].remote = rn]

(***************************************************************************)
(* Attribute codec: the encoders and decoders the mapping tables name.     *)
(***************************************************************************)
encode_value(kind, v) ==
    CASE kind = "default" -> v
      [] kind = "str" -> v                                  \* str(v)
      [] kind = "enum" -> EnumValue[v]
      [] kind = "or_empty" ->                               \* v or ""
            IF v = NoneValue THEN "" ELSE v
      [] kind = "secret_or_empty" ->        \* v.get_secret_value() if v else ""
            IF v = NoneValue THEN "" ELSE v
      [] kind = "join" ->                   \* ",".join(sorted(v)) if v else ""
            IF v = {} THEN <<"">> ELSE Sorted(v)

decode_value(kind, v) ==
    CASE kind = "default" -> v
      [] kind = "enum" -> EnumMember(v)
      [] kind = "or_none" ->                                \* v or None
            IF v = "" THEN NoneValue ELSE v
      [] kind = "split" ->
            \* set(addr.strip() for addr in v.split(",")) if v and v.strip() else []
            IF v = <<"">> THEN {} ELSE {Strip(v[i]) : i \in DOMAIN v}

\* The root_encoder of password_confirmation, self.password.get_secret_value(),
\* raises AttributeError when self.password is None.
encode_raises(e, obj) ==
    e.root_encoder = "password" /\ obj["password"] = NoneValue

encode_attr(e, obj) ==
    IF e.root_encoder = "password" THEN obj["password"]
    ELSE encode_value(e.encoder, obj[e.local])

\* decode(mapping_table, remote_object): a mapped field that is absent and not
\* optional is an error.
get_local_attrs_raises(map, obj) ==
    \E i \in DOMAIN map : map[i].remote \notin DOMAIN obj /\ ~map[i].optional

get_local_attrs(map, obj) ==
    LET present == {i \in DOMAIN map : map[i].remote \in DOMAIN obj}
        entry(ln) == map[CHOOSE i \in present : map[i].local = ln]
    IN  [ln \in {map[i].local : i \in present} |->
            decode_value(entry(ln).decoder, obj[entry(ln).remote])]

(***************************************************************************)
(* Change-set resolver: resolve(tree, local, remote, mapping_table,        *)
(* set_unchanged) -> (changed, remote_attrs).  exc is the exception an     *)
(* encoder raised, "ok" when none did.                                     *)
(***************************************************************************)
get_update_remote_attrs(self, rem, map, set_unchanged) ==
    LET differs(i) == self[map[i].local] # rem[map[i].local]
        included == {i \in DOMAIN map : differs(i) \/ set_unchanged}
    IN  [updated |-> \E i \in DOMAIN map : differs(i),
         exc |-> IF \E i \in included : encode_raises(map[i], self)
                 THEN "AttributeError" ELSE "ok",
         remote_attrs |->
            [rn \in {map[i].remote : i \in included} |->
                encode_attr(EntryOf(map, rn), self)]]

(***************************************************************************)
(* Field defaults of the settings classes.                                 *)
(***************************************************************************)
GeneralDefaults ==
    [host |-> [bind_address |-> "*", port |-> 8989, ssl_port |-> 9898,
               use_ssl |-> FALSE, url_base |-> NoneValue,
               instance_name |-> "Lidarr"],
     security |-> [authentication |-> "none", username |-> NoneValue,
                   password |-> NoneValue, password_confirmation |-> NoneValue,
                   certificate_validation |-> "enabled"],
     proxy |-> [enable |-> FALSE, proxy_type |-> "http", hostname |-> NoneValue,
                port |-> 8080, username |-> NoneValue, password |-> NoneValue,
                ignored_addresses |-> {},
                bypass_proxy_for_local_addresses |-> TRUE],
     logging |-> [log_level |-> "INFO"],
     analytics |-> [send_anonymous_usage_data |-> TRUE],
     updates |-> [branch |-> "main", automatic |-> FALSE, mechanism |-> "docker",
                  script_path |-> NoneValue],
     backup |-> [folder |-> "Backups", interval |-> 7, retention |-> 28]]

MediaManagementDefaults ==
    [rename_tracks |-> FALSE, replace_illegal_characters |-> TRUE,
     delete_empty_folders |-> FALSE, skip_free_space_check |-> FALSE,
     minimum_free_space |-> 100, use_hardlinks |-> TRUE,
     import_extra_files |-> FALSE, propers_and_repacks |-> "do_not_prefer",
     analyze_video_files |-> TRUE,
     rescan_artist_folder_after_refresh |-> "always",
     change_file_date |-> "none", recycling_bin |-> NoneValue,
     recycling_bin_cleanup |-> 7, set_permissions |-> FALSE,
     chmod_folder |-> "drwxr_xr_x", chown_group |-> NoneValue,
     root_folders |-> {}, delete_unmanaged_root_folders |-> FALSE]

TagsDefaults == [definitions |-> {}]

MetadataDefaults ==
    [kodi_emby |-> [enable |-> FALSE], roksbox |-> [enable |-> FALSE],
     wdtv |-> [enable |-> FALSE]]

(***************************************************************************)
(* The server: one object per singleton resource, one list per collection. *)
(* A PUT replaces the whole object by the request body; a POST appends an  *)
(* entry with an identifier the server assigns.                            *)
(***************************************************************************)
HostEndpoint == "/api/v1/config/host"
NamingEndpoint == "/api/v1/config/naming"
MediaManagementEndpoint == "/api/v1/config/mediamanagement"
RootFolderEndpoint == "/api/v1/rootfolder"
TagEndpoint == "/api/v1/tag"
MetadataEndpoint == "/api/v1/metadata"

SingletonEndpoints == {HostEndpoint, NamingEndpoint, MediaManagementEndpoint}

ServerGet(srv, ep) == srv[ep]

ServerPutOk(srv, ep, id) ==
    IF ep \in SingletonEndpoints THEN srv[ep]["id"] = id
    ELSE \E i \in DOMAIN srv[ep] : srv[ep][i]["id"] = id

ServerPut(srv, ep, id, body) ==
    IF ep \in SingletonEndpoints THEN [srv EXCEPT ![ep] = body]
    ELSE [srv EXCEPT ![ep] =
            [i \in DOMAIN @ |-> IF @[i]["id"] = id THEN body ELSE @[i]]]

ServerPost(srv, ep, body) ==
    LET created ==
            IF ep = TagEndpoint
            THEN [label |-> body["label"], id |-> srv.nextId]
            ELSE [path |-> body["path"], id |-> srv.nextId]
    IN  [srv EXCEPT ![ep] = Append(@, created), !.nextId = @ + 1]

ServerDelete(srv, ep, id) ==
    [srv EXCEPT ![ep] = SelectSeq(@, LAMBDA x : x["id"] # id)]

(***************************************************************************)
(* The API client.  f is the number of the call of this handler that the   *)
(* server answers with an error (0: none); a call made while an exception  *)
(* propagates is never made.                                               *)
(***************************************************************************)
NewApi(srv) == [srv |-> srv, calls |-> <<>>, exc |-> "ok", evals |-> <<>>]

Raise(st, e) == IF st.exc # "ok" THEN st ELSE [st EXCEPT !.exc = e]

Fails(st, f) == Len(st.calls) + 1 = f

Failed(st, call) ==
    [st EXCEPT !.calls = Append(@, [call EXCEPT !.ok = FALSE]),
               !.exc = "APIError"]

api_get(st, f, ep) ==
    LET call == [method |-> "GET", path |-> <<ep>>, ok |-> TRUE,
                 resp |-> ServerGet(st.srv, ep)]
    IN  IF st.exc # "ok" THEN st
        ELSE IF Fails(st, f) THEN Failed(st, call)
        ELSE [st EXCEPT !.calls = Append(@, call)]

api_put(st, f, ep, id, body) ==
    LET call == [method |-> "PUT", path |-> <<ep, id>>, ok |-> TRUE,
                 body |-> body]
    IN  IF st.exc # "ok" THEN st
        ELSE IF Fails(st, f) \/ ~ServerPutOk(st.srv, ep, id) THEN Failed(st, call)
        ELSE [st EXCEPT !.calls = Append(@, call),
                        !.srv = ServerPut(@, ep, id, body)]

api_post(st, f, ep, body) ==
    LET call == [method |-> "POST", path |-> <<ep>>, ok |-> TRUE,
                 body |-> body]
    IN  IF st.exc # "ok" THEN st
        ELSE IF Fails(st, f) THEN Failed(st, call)
        ELSE [st EXCEPT !.calls = Append(@, call),
                        !.srv = ServerPost(@, ep, body)]

api_delete(st, f, ep, id) ==
    LET call == [method |-> "DELETE", path |-> <<ep, id>>, ok |-> TRUE]
    IN  IF st.exc # "ok" THEN st
        ELSE IF Fails(st, f) THEN Failed(st, call)
        ELSE [st EXCEPT !.calls = Append(@, call),
                        !.srv = ServerDelete(@, ep, id)]

\* The value the last call returned.
Response(st) == st.calls[Len(st.calls)].resp

\* A handler's outcome: the API state and the value returned.
Return(st, v) ==
    [srv |-> st.srv, calls |-> st.calls, exc |-> st.exc, evals |-> st.evals,
     ret |-> v]

\* A sub-resolver has computed (and logged) its decision: its name, the
\* decision, and the number of API calls the handler had issued by then.
Resolved(st, name, updated) ==
    IF st.exc # "ok" THEN st
    ELSE [st EXCEPT !.evals =
            Append(@, [name |-> name, updated |-> updated, at |-> Len(st.calls)])]

(***************************************************************************)
(* General settings.                                                       *)
(***************************************************************************)
\* GeneralSettings._from_remote: cls(**cls.get_local_attrs(cls._remote_map, attrs))
GeneralSettings_from_remote(g, remote_attrs) ==
    Merge(GeneralDefaults[g], get_local_attrs(GeneralMap(g), remote_attrs))

\* GeneralSettings._update_remote_attrs: the resolver, with set_unchanged=True
GeneralSettings_update_remote_attrs(self, rem, g) ==
    get_update_remote_attrs(self, rem, GeneralMap(g), TRUE)

LidarrGeneralSettingsConfig_from_remote(st, f) ==
    LET st1 == api_get(st, f, HostEndpoint)
        settings == Response(st1)
    IN  IF st1.exc # "ok" THEN Return(st1, GeneralDefaults)
        ELSE IF \E i \in DOMAIN GeneralGroups :
                    get_local_attrs_raises(GeneralMap(GeneralGroups[i]), settings)
        THEN Return(Raise(st1, "MissingRemoteField"), GeneralDefaults)
        ELSE Return(st1, [g \in Range(GeneralGroups) |->
                              GeneralSettings_from_remote(g, settings)])

RECURSIVE MergeAll(_, _)
MergeAll(base, attrs) ==
    IF attrs = <<>> THEN base
    ELSE MergeAll(Merge(base, Head(attrs)), Tail(attrs))

\* Faulty variant: the body carries the id the host configuration is created
\* with, not the id fetched.
GeneralWrite_initial_id(st, f, attrs) ==
    LET st1 == api_get(st, f, HostEndpoint)
        remote_config == Response(st1)
    IN  IF st1.exc # "ok" THEN st1
        ELSE api_put(st1, f, HostEndpoint, remote_config["id"],
                     Merge(MergeAll(remote_config, attrs), [id |-> 1]))

\* The PUT of update_remote: a fresh GET of the host configuration, then the
\* PUT of that snapshot overlaid with the attributes of the seven sub-groups.
GeneralWrite(st, f, attrs) ==
    LET st1 == api_get(st, f, HostEndpoint)
        remote_config == Response(st1)
    IN  IF st1.exc # "ok" THEN st1
        ELSE api_put(st1, f, HostEndpoint, remote_config["id"],
                     MergeAll(remote_config, attrs))

LidarrGeneralSettingsConfig_update_remote(self, rem, st, f) ==
    LET res(i) == GeneralSettings_update_remote_attrs(
                      self[GeneralGroups[i]], rem[GeneralGroups[i]],
                      GeneralGroups[i])
        n == Len(GeneralGroups)
        raising == {i \in 1..n : res(i).exc # "ok"}
        \* the sub-groups are resolved in order, up to the first that raises
        done == IF raising = {} THEN n
                ELSE (CHOOSE i \in raising : \A j \in raising : i <= j) - 1
        st0 == [st EXCEPT !.evals = @ \o
                    [i \in 1..done |->
                        [name |-> GeneralGroups[i], updated |-> res(i).updated,
                         at |-> Len(st.calls)]]]
    IN  IF raising # {}
        THEN Return(Raise(st0, "AttributeError"), FALSE)
        ELSE IF \E i \in 1..n : res(i).updated
        THEN Return(GeneralWrite(st0, f, [i \in 1..n |-> res(i).remote_attrs]), TRUE)
        ELSE Return(st0, FALSE)

(***************************************************************************)
(* Media management settings: naming, media management, root folders.      *)
(***************************************************************************)
Paths(rfs) == {rfs[i]["path"] : i \in DOMAIN rfs}

LidarrMediaManagementSettingsConfig_from_remote(st, f) ==
    LET st1 == api_get(st, f, NamingEndpoint)
        st2 == IF st1.exc = "ok" /\ get_local_attrs_raises(naming_remote_map, Response(st1))
               THEN Raise(st1, "MissingRemoteField")
               ELSE api_get(st1, f, MediaManagementEndpoint)
        st3 == IF st2.exc = "ok"
                  /\ get_local_attrs_raises(mediamanagement_remote_map, Response(st2))
               THEN Raise(st2, "MissingRemoteField")
               ELSE api_get(st2, f, RootFolderEndpoint)
    IN  IF st3.exc # "ok" THEN Return(st3, MediaManagementDefaults)
        ELSE Return(st3,
                MergeAll(MediaManagementDefaults,
                    << get_local_attrs(naming_remote_map, Response(st1)),
                       get_local_attrs(mediamanagement_remote_map, Response(st2)),
                       [root_folders |-> Paths(Response(st3))] >>))

\* A singleton configuration block: resolve, and on a change GET the id and
\* PUT {"id": config_id, **remote_attrs}.
resolve_and_put(self, rem, st, f, map, ep, set_unchanged) ==
    LET r == get_update_remote_attrs(self, rem, map, set_unchanged)
        st0 == Resolved(st, ep, r.updated)
        st1 == api_get(st0, f, ep)
        config_id == Response(st1)["id"]
    IN  IF st.exc # "ok" THEN Return(st, FALSE)
        ELSE IF r.exc # "ok" THEN Return(Raise(st, r.exc), FALSE)
        ELSE IF ~r.updated THEN Return(st0, FALSE)
        ELSE IF st1.exc # "ok" THEN Return(st1, FALSE)
        ELSE Return(api_put(st1, f, ep, config_id,
                            Merge([id |-> config_id], r.remote_attrs)), TRUE)

\* Faulty variant: the resolver is called without set_unchanged.
update_remote_config_changed_only(self, rem, st, f, map, ep) ==
    resolve_and_put(self, rem, st, f, map, ep, FALSE)

update_remote_config(self, rem, st, f, map, ep) ==
    resolve_and_put(self, rem, st, f, map, ep, TRUE)

update_remote_naming(self, rem, st, f) ==
    update_remote_config(self, rem, st, f, naming_remote_map, NamingEndpoint)

\* Faulty variant: the id is taken from a snapshot held from before, not fetched.
update_remote_mediamanagement_held_id(self, rem, st, f) ==
    LET r == get_update_remote_attrs(self, rem, mediamanagement_remote_map, TRUE)
        config_id == st.srv[MediaManagementEndpoint]["id"]
    IN  IF st.exc # "ok" \/ ~r.updated THEN Return(st, FALSE)
        ELSE Return(api_put(st, f, MediaManagementEndpoint, config_id,
                            Merge([id |-> config_id], r.remote_attrs)), TRUE)

\* Faulty variant: a change of a naming field also writes the media management block.
update_remote_mediamanagement_coupled(self, rem, st, f) ==
    resolve_and_put(self, rem, st, f,
                    naming_remote_map \o mediamanagement_remote_map,
                    MediaManagementEndpoint, TRUE)

update_remote_mediamanagement(self, rem, st, f) ==
    update_remote_config(self, rem, st, f, mediamanagement_remote_map,
                         MediaManagementEndpoint)

RootFolderBody(root_folder) ==
    [path |-> root_folder, name |-> root_folder,
     defaultQualityProfileId |-> 1, defaultMetadataProfileId |-> 1]

\* for i, root_folder in enumerate(self.root_folders): order is the order in
\* which the set is iterated.
RECURSIVE CreateRootFolders(_, _, _, _, _)
CreateRootFolders(st, f, current, order, changed) ==
    IF st.exc # "ok" \/ order = <<>> THEN Return(st, changed)
    ELSE IF Head(order) \in current
    THEN CreateRootFolders(st, f, current, Tail(order), changed)
    ELSE CreateRootFolders(
            api_post(st, f, RootFolderEndpoint, RootFolderBody(Head(order))),
            f, current, Tail(order), TRUE)

update_remote_rootfolder(self, st, f, order) ==
    LET st1 == api_get(st, f, RootFolderEndpoint)
        current_root_folders == Paths(Response(st1))
        st2 == Resolved(st1, RootFolderEndpoint,
                        \E i \in DOMAIN order : order[i] \notin current_root_folders)
    IN  IF st1.exc # "ok" THEN Return(st1, FALSE)
        ELSE CreateRootFolders(st2, f, current_root_folders, order, FALSE)

\* Faulty variant: an error of the naming block is caught and the other
\* reconcilers still run.
LidarrMediaManagementSettingsConfig_update_remote_swallowing(self, rem, st, f, order) ==
    LET r1 == update_remote_naming(self, rem, st, f)
        r2 == update_remote_mediamanagement(self, rem, [r1 EXCEPT !.exc = "ok"], f)
        r3 == update_remote_rootfolder(self, r2, f, order)
    IN  IF r2.exc # "ok" THEN r2
        ELSE Return(r3, r1.ret \/ r2.ret \/ r3.ret)

\* any([naming, mediamanagement, rootfolder]): the list is built in full.
LidarrMediaManagementSettingsConfig_update_remote(self, rem, st, f, order) ==
    LET r1 == update_remote_naming(self, rem, st, f)
        r2 == update_remote_mediamanagement(self, rem, r1, f)
        r3 == update_remote_rootfolder(self, r2, f, order)
    IN  IF r1.exc # "ok" THEN r1
        ELSE IF r2.exc # "ok" THEN r2
        ELSE Return(r3, r1.ret \/ r2.ret \/ r3.ret)

\* for root_folder, root_folder_id in current_root_folders.items()
RECURSIVE DeleteRootFolders(_, _, _, _, _, _)
DeleteRootFolders(st, f, current, expected, delete_unmanaged, changed) ==
    IF st.exc # "ok" \/ current = <<>> THEN Return(st, changed)
    ELSE IF Head(current)["path"] \notin expected /\ delete_unmanaged
    THEN DeleteRootFolders(
            api_delete(st, f, RootFolderEndpoint, Head(current)["id"]),
            f, Tail(current), expected, delete_unmanaged, TRUE)
    ELSE DeleteRootFolders(st, f, Tail(current), expected, delete_unmanaged,
                           changed)

\* Faulty variant: delete_unmanaged_root_folders is not consulted.
delete_remote_rootfolder_ungated(self, st, f) ==
    LET st1 == api_get(st, f, RootFolderEndpoint)
    IN  IF st1.exc # "ok" THEN Return(st1, FALSE)
        ELSE DeleteRootFolders(st1, f, Response(st1), self["root_folders"],
                               TRUE, FALSE)

\* Faulty variant: the loop does not skip the folders the local configuration declares.
delete_remote_rootfolder_all(self, st, f) ==
    LET st1 == api_get(st, f, RootFolderEndpoint)
    IN  IF st1.exc # "ok" THEN Return(st1, FALSE)
        ELSE DeleteRootFolders(st1, f, Response(st1), {},
                               self["delete_unmanaged_root_folders"], FALSE)

delete_remote_rootfolder(self, st, f) ==
    LET st1 == api_get(st, f, RootFolderEndpoint)
    IN  IF st1.exc # "ok" THEN Return(st1, FALSE)
        ELSE DeleteRootFolders(st1, f, Response(st1), self["root_folders"],
                               self["delete_unmanaged_root_folders"], FALSE)

\* Faulty variant: delete_remote also creates the declared root folders that
\* are missing.
LidarrMediaManagementSettingsConfig_delete_remote_creating(self, st, f) ==
    LET r == delete_remote_rootfolder(self, st, f)
        created == update_remote_rootfolder(self, r, f,
                                            Sorted(self["root_folders"]))
    IN  IF r.exc # "ok" THEN r
        ELSE Return(created, r.ret \/ created.ret)

LidarrMediaManagementSettingsConfig_delete_remote(self, st, f) ==
    delete_remote_rootfolder(self, st, f)

(***************************************************************************)
(* Tags.                                                                   *)
(***************************************************************************)
Labels(tags) == {tags[i]["label"] : i \in DOMAIN tags}

\* Faulty variant: reading the tags creates one.
LidarrTagsSettingsConfig_from_remote_creating(st, f) ==
    LET st1 == api_get(st, f, TagEndpoint)
        st2 == api_post(st1, f, TagEndpoint, [label |-> "c"])
    IN  IF st2.exc # "ok" THEN Return(st2, TagsDefaults)
        ELSE Return(st2, [definitions |-> Labels(Response(st1))])

LidarrTagsSettingsConfig_from_remote(st, f) ==
    LET st1 == api_get(st, f, TagEndpoint)
    IN  IF st1.exc # "ok" THEN Return(st1, TagsDefaults)
        ELSE Return(st1, [definitions |-> Labels(Response(st1))])

\* Faulty variant: a tag is created whether or not it exists.
RECURSIVE CreateTags_unconditional(_, _, _, _, _)
CreateTags_unconditional(st, f, current_tags, order, changed) ==
    IF st.exc # "ok" \/ order = <<>> THEN Return(st, changed)
    ELSE CreateTags_unconditional(
            api_post(st, f, TagEndpoint, [label |-> Head(order)]),
            f, current_tags, Tail(order), TRUE)

\* Faulty variant: a POST the server refused is issued once more.
RECURSIVE CreateTags_retrying(_, _, _, _, _)
CreateTags_retrying(st, f, current_tags, order, changed) ==
    IF st.exc # "ok" \/ order = <<>> THEN Return(st, changed)
    ELSE IF Head(order) \in current_tags
    THEN CreateTags_retrying(st, f, current_tags, Tail(order), changed)
    ELSE LET st1 == api_post(st, f, TagEndpoint, [label |-> Head(order)])
             st2 == IF st1.exc = "APIError"
                    THEN api_post([st1 EXCEPT !.exc = "ok"], f, TagEndpoint,
                                  [label |-> Head(order)])
                    ELSE st1
         IN  CreateTags_retrying(st2, f, current_tags, Tail(order), TRUE)

RECURSIVE CreateTags(_, _, _, _, _)
CreateTags(st, f, current_tags, order, changed) ==
    IF st.exc # "ok" \/ order = <<>> THEN Return(st, changed)
    ELSE IF Head(order) \in current_tags
    THEN CreateTags(st, f, current_tags, Tail(order), changed)
    ELSE CreateTags(api_post(st, f, TagEndpoint, [label |-> Head(order)]),
                    f, current_tags, Tail(order), TRUE)

\* for i, tag in enumerate(sorted(self.definitions))
TagOrder(definitions) == Sorted(definitions)

\* Faulty variant: the tags to create are decided on the remote settings object
\* read earlier, not on the list just fetched.
LidarrTagsSettingsConfig_update_remote_stale(self, st, f) ==
    LET st1 == api_get(st, f, TagEndpoint)
    IN  IF st1.exc # "ok" THEN Return(st1, FALSE)
        ELSE CreateTags(st1, f, remote.tags.definitions,
                        TagOrder(self["definitions"]), FALSE)

\* Faulty variant: a tag the local configuration does not declare is deleted.
LidarrTagsSettingsConfig_update_remote_pruning(self, st, f) ==
    LET st1 == api_get(st, f, TagEndpoint)
        tags == Response(st1)
        r == CreateTags(st1, f, Labels(tags), TagOrder(self["definitions"]), FALSE)
        extra == {i \in DOMAIN tags : tags[i]["label"] \notin self["definitions"]}
        first == tags[CHOOSE i \in extra : \A j \in extra : i <= j]
    IN  IF st1.exc # "ok" THEN Return(st1, FALSE)
        ELSE IF r.exc # "ok" \/ extra = {} THEN r
        ELSE Return(api_delete(r, f, TagEndpoint, first["id"]), TRUE)

LidarrTagsSettingsConfig_update_remote(self, st, f) ==
    LET st1 == api_get(st, f, TagEndpoint)
    IN  IF st1.exc # "ok" THEN Return(st1, FALSE)
        ELSE CreateTags(st1, f, Labels(Response(st1)),
                        TagOrder(self["definitions"]), FALSE)

(***************************************************************************)
(* Metadata.                                                               *)
(***************************************************************************)
Metadata_map == Metadata_base_remote_map \o Metadata_remote_map

\* The loop over the fetched list keeps the last entry of each implementation.
HasMetadata(list, impl) ==
    \E i \in DOMAIN list : list[i]["implementation"] = impl

FindMetadata(list, impl) ==
    list[CHOOSE i \in DOMAIN list :
            /\ list[i]["implementation"] = impl
            /\ \A j \in DOMAIN list :
                  list[j]["implementation"] = impl => j <= i]

Metadata_from_remote(attr, metadata) ==
    Merge(MetadataDefaults[attr], get_local_attrs(Metadata_map, metadata))

LidarrMetadataSettingsConfig_from_remote(st, f) ==
    LET st1 == api_get(st, f, MetadataEndpoint)
        list == Response(st1)
        attrs == Range(MetadataAttrs)
    IN  IF st1.exc # "ok" THEN Return(st1, MetadataDefaults)
        ELSE IF \E a \in attrs : ~HasMetadata(list, Implementation[a])
        THEN Return(Raise(st1, "RuntimeError"), MetadataDefaults)
        ELSE IF \E a \in attrs :
                    get_local_attrs_raises(Metadata_map,
                                           FindMetadata(list, Implementation[a]))
        THEN Return(Raise(st1, "MissingRemoteField"), MetadataDefaults)
        ELSE Return(st1, [a \in attrs |->
                Metadata_from_remote(a, FindMetadata(list, Implementation[a]))])

\* updated_fields = {f["name"]: f["value"] for f in remote_attrs.pop("fields")}
\* raises KeyError when remote_attrs has no "fields".
MetadataBody(api_metadata, remote_attrs) ==
    LET popped == remote_attrs["fields"]
        rest == [k \in (DOMAIN remote_attrs) \ {"fields"} |-> remote_attrs[k]]
        names == {popped[i]["name"] : i \in DOMAIN popped}
        updated_fields ==
            [n \in names |->
                popped[CHOOSE i \in DOMAIN popped :
                          /\ popped[i]["name"] = n
                          /\ \A j \in DOMAIN popped :
                                popped[j]["name"] = n => j <= i]["value"]]
        fields ==
            [i \in DOMAIN api_metadata["fields"] |->
                LET field == api_metadata["fields"][i]
                IN  IF field["name"] \in names
                    THEN [field EXCEPT !["value"] = updated_fields[field["name"]]]
                    ELSE field]
    IN  MergeAll(api_metadata, <<rest, [fields |-> fields]>>)

Metadata_update_remote(self, rem, api_metadata, st, f) ==
    LET r == get_update_remote_attrs(self, rem, Metadata_map, TRUE)
        st0 == Resolved(st, api_metadata["implementation"], r.updated)
    IN  IF st.exc # "ok" THEN Return(st, FALSE)
        ELSE IF r.exc # "ok" THEN Return(Raise(st, r.exc), FALSE)
        ELSE IF ~r.updated THEN Return(st0, FALSE)
        ELSE IF "fields" \notin DOMAIN r.remote_attrs
        THEN Return(Raise(st0, "KeyError"), FALSE)
        ELSE Return(api_put(st0, f, MetadataEndpoint, api_metadata["id"],
                            MetadataBody(api_metadata, r.remote_attrs)), TRUE)

\* Faulty variant: an implementation missing from the fetched list is passed over.
LidarrMetadataSettingsConfig_update_remote_tolerant(self, rem, st, f) ==
    LET st1 == api_get(st, f, MetadataEndpoint)
        list == Response(st1)
        present == SelectSeq(MetadataAttrs,
                             LAMBDA a : HasMetadata(list, Implementation[a]))
        r(k) == Metadata_update_remote(self[present[k]], rem[present[k]],
                    FindMetadata(list, Implementation[present[k]]), st1, f)
    IN  IF st1.exc # "ok" THEN Return(st1, FALSE)
        ELSE IF present = << >> THEN Return(st1, FALSE)
        ELSE r(1)

LidarrMetadataSettingsConfig_update_remote(self, rem, st, f) ==
    LET st1 == api_get(st, f, MetadataEndpoint)
        list == Response(st1)
        md(a) == FindMetadata(list, Implementation[a])
        r1 == Metadata_update_remote(self["kodi_emby"], rem["kodi_emby"],
                                     md("kodi_emby"), st1, f)
        r2 == Metadata_update_remote(self["roksbox"], rem["roksbox"],
                                     md("roksbox"), r1, f)
        r3 == Metadata_update_remote(self["wdtv"], rem["wdtv"],
                                     md("wdtv"), r2, f)
    IN  IF st1.exc # "ok" THEN Return(st1, FALSE)
        ELSE IF \E a \in Range(MetadataAttrs) : ~HasMetadata(list, Implementation[a])
        THEN Return(Raise(st1, "RuntimeError"), FALSE)
        ELSE IF r1.exc # "ok" THEN r1
        ELSE IF r2.exc # "ok" THEN r2
        ELSE Return(r3, r1.ret \/ r2.ret \/ r3.ret)

(***************************************************************************)
(* Bounds and the configurations a run starts from.                        *)
(***************************************************************************)
MaxPasses == 2

MaxFailPoint == 8

FailPoints == 0..MaxFailPoint

Groups == {"general", "media_management", "tags", "metadata"}

TagNames == {"a", "b", "c"}

FolderNames == {"/a", "/b", "/c"}

\* The sequences that enumerate the set S, each element once.
Perms(S) == {s \in [1..Cardinality(S) -> S] : Range(s) = S}

LocalDefaults ==
    [general |-> GeneralDefaults, media_management |-> MediaManagementDefaults,
     tags |-> TagsDefaults, metadata |-> MetadataDefaults]

\* The host configuration as the server returns it.  launchBrowser stands for
\* the values of the resource that no mapping table names.
HostObject(logLevel, urlBase, password) ==
    [id |-> 1, launchBrowser |-> TRUE,
     bindAddress |-> "*", port |-> 8989, sslPort |-> 9898, enableSsl |-> FALSE,
     urlBase |-> urlBase, instanceName |-> "Lidarr",
     authenticationMethod |-> "none", username |-> "", password |-> password,
     passwordConfirmation |-> password, certificateValidation |-> "enabled",
     proxyEnabled |-> FALSE, proxyType |-> "http", proxyHostname |-> "",
     proxyPort |-> 8080, proxyUsername |-> "", proxyPassword |-> "",
     proxyBypassFilter |-> <<"">>, proxyBypassLocalAddresses |-> TRUE,
     logLevel |-> logLevel, analyticsEnabled |-> TRUE,
     branch |-> "main", updateAutomatically |-> FALSE,
     updateMechanism |-> "docker", updateScriptPath |-> "",
     backupFolder |-> "Backups", backupInterval |-> 7, backupRetention |-> 28]

NamingObject(renameTracks) ==
    [id |-> 1, renameTracks |-> renameTracks, replaceIllegalCharacters |-> TRUE,
     standardTrackFormat |-> "{track:00}"]

MediaManagementObject(recycleBin) ==
    [id |-> 1, watchLibraryForChanges |-> TRUE,
     deleteEmptyFolders |-> FALSE, skipFreeSpaceCheckWhenImporting |-> FALSE,
     minimumFreeSpaceWhenImporting |-> 100, copyUsingHardlinks |-> TRUE,
     importExtraFiles |-> FALSE, downloadPropersAndRepacks |-> "doNotPrefer",
     rescanAfterRefresh |-> "always", fileDate |-> "none",
     recycleBin |-> recycleBin, recycleBinCleanupDays |-> 7,
     setPermissionsLinux |-> FALSE, chmodFolder |-> "755", chownGroup |-> ""]

\* Identifiers the server assigned to the entries that exist when a run starts.
ExistingId ==
    [n \in TagNames \cup FolderNames |->
        CASE n \in {"a", "/a"} -> 3 [] n \in {"b", "/b"} -> 1 [] OTHER -> 2]

RootFolderList(order) ==
    [i \in DOMAIN order |-> [path |-> order[i], id |-> ExistingId[order[i]]]]

TagList(order) ==
    [i \in DOMAIN order |-> [label |-> order[i], id |-> ExistingId[order[i]]]]

MetadataObject(attr, enable) ==
    [id |-> CHOOSE i \in DOMAIN MetadataAttrs : MetadataAttrs[i] = attr,
     implementation |-> Implementation[attr], enable |-> enable,
     name |-> attr,
     fields |-> << [name |-> "artistMetadata", value |-> TRUE] >>]

MetadataList(enabled) ==
    [i \in DOMAIN MetadataAttrs |->
        MetadataObject(MetadataAttrs[i], MetadataAttrs[i] \in enabled)]

ServerDefaults ==
    (HostEndpoint :> HostObject("info", "", ""))
    @@ (NamingEndpoint :> NamingObject(FALSE))
    @@ (MediaManagementEndpoint :> MediaManagementObject(""))
    @@ (RootFolderEndpoint :> << >>)
    @@ (TagEndpoint :> << >>)
    @@ (MetadataEndpoint :> MetadataList({}))
    @@ [nextId |-> 4]

GeneralLocals ==
    {[GeneralDefaults EXCEPT !.security.password = pw,
                             !.security.password_confirmation = pwc,
                             !.logging.log_level = lvl,
                             !.host.url_base = ub] :
        pw \in {NoneValue, "pw"}, pwc \in {NoneValue, "pw"},
        lvl \in {"INFO", "DEBUG"}, ub \in {NoneValue, "", "/lidarr"}}

\* An object as a server returns it that does not have the given fields.
Without(obj, fields) == [k \in (DOMAIN obj) \ fields |-> obj[k]]

\* Sets of fields a server may leave out of the host configuration.
HostOmissions ==
    {{}, {"password"}, {"username", "password", "passwordConfirmation"},
     {"logLevel"}, {"password", "backupFolder"}}

GeneralServers ==
    {HostObject(lvl, ub, pw) :
        lvl \in {"info", "debug"}, ub \in {"", "/lidarr"}, pw \in {"", "pw"}}
    \cup {Without(HostObject("debug", "", "pw"), o) : o \in HostOmissions}

\* Media management runs that differ in the settings fields ...
FieldLocals ==
    {[MediaManagementDefaults EXCEPT !.rename_tracks = rt, !.recycling_bin = rb,
                                     !.root_folders = rf] :
        rt \in BOOLEAN, rb \in {NoneValue, "", "/bin"}, rf \in {{}, {"/a"}}}

FieldServers ==
    {[ServerDefaults EXCEPT ![NamingEndpoint] = NamingObject(rt),
                            ![MediaManagementEndpoint] = MediaManagementObject(rb)] :
        rt \in BOOLEAN, rb \in {"", "/bin"}}
    \cup {[ServerDefaults EXCEPT ![NamingEndpoint] =
                Without(NamingObject(FALSE), {"renameTracks"})],
          [ServerDefaults EXCEPT ![MediaManagementEndpoint] =
                Without(MediaManagementObject(""), {"recycleBin"})]}

\* ... and runs that differ in the root folders.
FolderLocals ==
    {[MediaManagementDefaults EXCEPT !.root_folders = rf,
                                     !.delete_unmanaged_root_folders = du] :
        rf \in SUBSET FolderNames, du \in BOOLEAN}

FolderServers ==
    {[ServerDefaults EXCEPT ![RootFolderEndpoint] = RootFolderList(order)] :
        order \in UNION {Perms(S) : S \in SUBSET FolderNames}}

TagLocals == {[definitions |-> d] : d \in SUBSET TagNames}

TagServers ==
    {[ServerDefaults EXCEPT ![TagEndpoint] = TagList(order)] :
        order \in UNION {Perms(S) : S \in SUBSET TagNames}}

MetadataLocals ==
    {[a \in Range(MetadataAttrs) |-> [enable |-> a \in on]] :
        on \in SUBSET Range(MetadataAttrs)}

\* The metadata list of a server, complete or without the entries of some
\* implementations.
MetadataServers ==
    {[ServerDefaults EXCEPT ![MetadataEndpoint] = MetadataList(on)] :
        on \in SUBSET Range(MetadataAttrs)}
    \cup {[ServerDefaults EXCEPT ![MetadataEndpoint] =
                SelectSeq(MetadataList({"kodi_emby"}),
                          LAMBDA m : m["implementation"] \notin gone)] :
            gone \in {{"WdtvMetadata"}, {"XbmcMetadata", "RoksboxMetadata"},
                      {"XbmcMetadata", "RoksboxMetadata", "WdtvMetadata"}}}

\* No value is on its way through a codec during a reconciliation run.
CodecIdle == [step |-> "idle"]

Init ==
    /\ group \in Groups
    /\ \/ /\ group = "general"
          /\ \E l \in GeneralLocals : local = [LocalDefaults EXCEPT !.general = l]
          /\ \E h \in GeneralServers :
                server = [ServerDefaults EXCEPT ![HostEndpoint] = h]
       \/ /\ group = "media_management"
          /\ \/ /\ \E l \in FieldLocals :
                      local = [LocalDefaults EXCEPT !.media_management = l]
                /\ server \in FieldServers
             \/ /\ \E l \in FolderLocals :
                      local = [LocalDefaults EXCEPT !.media_management = l]
                /\ server \in FolderServers
       \/ /\ group = "tags"
          /\ \E l \in TagLocals : local = [LocalDefaults EXCEPT !.tags = l]
          /\ server \in TagServers
       \/ /\ group = "metadata"
          /\ \E l \in MetadataLocals : local = [LocalDefaults EXCEPT !.metadata = l]
          /\ server \in MetadataServers
    /\ remote = LocalDefaults
    /\ phase = "start"
    /\ op = "none"
    /\ calls = << >>
    /\ result = "none"
    /\ pass = 0
    /\ touched = FALSE
    /\ settled = FALSE
    /\ second = FALSE
    /\ evals = << >>
    /\ codec = CodecIdle

(***************************************************************************)
(* What another client of the server may do to it between the from_remote  *)
(* and the update_remote (or delete_remote) of a pass.                     *)
(***************************************************************************)
ExternalChanges(g, srv) ==
    CASE g = "general" ->
            {[srv EXCEPT ![HostEndpoint]["launchBrowser"] = FALSE],
             [srv EXCEPT ![HostEndpoint]["id"] = 2]}
      [] g = "media_management" ->
            {[srv EXCEPT ![NamingEndpoint] =
                    Merge(@, [standardTrackFormat |-> "{title}", id |-> 2])]}
            \cup (IF "/c" \in Paths(srv[RootFolderEndpoint])
                  THEN {ServerDelete(srv, RootFolderEndpoint, ExistingId["/c"])}
                  ELSE {ServerPost(srv, RootFolderEndpoint, [path |-> "/c"])})
      [] g = "tags" ->
            IF "c" \in Labels(srv[TagEndpoint])
            THEN {ServerDelete(srv, TagEndpoint, ExistingId["c"])}
            ELSE {ServerPost(srv, TagEndpoint, [label |-> "c"])}
      [] g = "metadata" ->
            {[srv EXCEPT ![MetadataEndpoint][3]["enable"] = ~@],
             ServerDelete(srv, MetadataEndpoint, 2)}

(***************************************************************************)
(* The reconciliation driver: per pass from_remote, then update_remote,    *)
(* then (media management) delete_remote.  An exception ends the run.      *)
(***************************************************************************)
LastPhase(g) == IF g = "media_management" THEN "deleted" ELSE "updated"

CanFetch(g) ==
    /\ group = g
    /\ \/ phase = "start"
       \/ phase = LastPhase(g) /\ pass < MaxPasses

Fetched(name, g, r) ==
    /\ op' = name
    /\ calls' = r.calls
    /\ server' = r.srv
    /\ result' = IF r.exc = "ok" THEN "ok" ELSE r.exc
    /\ phase' = IF r.exc = "ok" THEN "fetched" ELSE "aborted"
    /\ remote' = IF r.exc = "ok" THEN [remote EXCEPT ![g] = r.ret] ELSE remote
    /\ pass' = pass + 1
    /\ touched' = FALSE
    /\ evals' = r.evals
    /\ UNCHANGED <<group, local, settled, second, codec>>

Written(name, r, next) ==
    /\ op' = name
    /\ calls' = r.calls
    /\ server' = r.srv
    /\ result' = IF r.exc # "ok" THEN r.exc ELSE IF r.ret THEN "True" ELSE "False"
    /\ phase' = IF r.exc = "ok" THEN next ELSE "aborted"
    /\ evals' = r.evals
    /\ UNCHANGED <<group, local, remote, pass, touched, codec>>

Updated(name, r) ==
    /\ Written(name, r, "updated")
    /\ settled' = (r.exc = "ok")
    /\ second' = settled

FromRemoteGeneral ==
    /\ CanFetch("general")
    /\ \E f \in FailPoints :
          Fetched("general.from_remote", "general",
                  LidarrGeneralSettingsConfig_from_remote(NewApi(server), f))

UpdateRemoteGeneral ==
    /\ group = "general" /\ phase = "fetched"
    /\ \E f \in FailPoints :
          Updated("general.update_remote",
                  LidarrGeneralSettingsConfig_update_remote(
                      local.general, remote.general, NewApi(server), f))

FromRemoteMediaManagement ==
    /\ CanFetch("media_management")
    /\ \E f \in FailPoints :
          Fetched("media_management.from_remote", "media_management",
                  LidarrMediaManagementSettingsConfig_from_remote(NewApi(server), f))

UpdateRemoteMediaManagement ==
    /\ group = "media_management" /\ phase = "fetched"
    /\ \E f \in FailPoints, order \in Perms(local.media_management.root_folders) :
          Updated("media_management.update_remote",
                  LidarrMediaManagementSettingsConfig_update_remote(
                      local.media_management, remote.media_management,
                      NewApi(server), f, order))

DeleteRemoteMediaManagement ==
    /\ group = "media_management" /\ phase = "updated"
    /\ \E f \in FailPoints :
          /\ Written("media_management.delete_remote",
                     LidarrMediaManagementSettingsConfig_delete_remote(
                         local.media_management, NewApi(server), f),
                     "deleted")
          /\ UNCHANGED <<settled, second>>

FromRemoteTags ==
    /\ CanFetch("tags")
    /\ \E f \in FailPoints :
          Fetched("tags.from_remote", "tags",
                  LidarrTagsSettingsConfig_from_remote(NewApi(server), f))

UpdateRemoteTags ==
    /\ group = "tags" /\ phase = "fetched"
    /\ \E f \in FailPoints :
          Updated("tags.update_remote",
                  LidarrTagsSettingsConfig_update_remote(
                      local.tags, NewApi(server), f))

FromRemoteMetadata ==
    /\ CanFetch("metadata")
    /\ \E f \in FailPoints :
          Fetched("metadata.from_remote", "metadata",
                  LidarrMetadataSettingsConfig_from_remote(NewApi(server), f))

UpdateRemoteMetadata ==
    /\ group = "metadata" /\ phase = "fetched"
    /\ \E f \in FailPoints :
          Updated("metadata.update_remote",
                  LidarrMetadataSettingsConfig_update_remote(
                      local.metadata, remote.metadata, NewApi(server), f))

ExternalChange ==
    /\ phase \in {"fetched", "updated"}
    /\ phase = "updated" => group = "media_management"
    /\ ~touched
    /\ server' \in ExternalChanges(group, server)
    /\ touched' = TRUE
    /\ settled' = FALSE
    /\ UNCHANGED <<group, local, remote, phase, op, calls, result, pass, second,
                   evals, codec>>

Next ==
    \/ FromRemoteGeneral
    \/ UpdateRemoteGeneral
    \/ FromRemoteMediaManagement
    \/ UpdateRemoteMediaManagement
    \/ DeleteRemoteMediaManagement
    \/ FromRemoteTags
    \/ UpdateRemoteTags
    \/ FromRemoteMetadata
    \/ UpdateRemoteMetadata
    \/ ExternalChange

Spec == Init /\ [][Next]_vars

(***************************************************************************)
(* Vocabulary of the properties.                                           *)
(***************************************************************************)
UpdateOps ==
    {"general.update_remote", "media_management.update_remote",
     "tags.update_remote", "metadata.update_remote"}

Returned == result \in {"True", "False"}

Calls(method) == {i \in DOMAIN calls : calls[i].method = method}

\* Some mapped field of the table differs between the local and the remote object.
MapChanged(self, rem, map) ==
    \E i \in DOMAIN map : self[map[i].local] # rem[map[i].local]

GeneralChanged ==
    \E i \in DOMAIN GeneralGroups :
        MapChanged(local.general[GeneralGroups[i]],
                   remote.general[GeneralGroups[i]],
                   GeneralMap(GeneralGroups[i]))

\* The mapping entries whose remote fields live on an endpoint.
EndpointEntries(ep) ==
    CASE ep = HostEndpoint ->
            HostGeneralSettings_remote_map \o SecurityGeneralSettings_remote_map
            \o ProxyGeneralSettings_remote_map \o LoggingGeneralSettings_remote_map
            \o AnalyticsGeneralSettings_remote_map
            \o UpdatesGeneralSettings_remote_map \o BackupGeneralSettings_remote_map
      [] ep = NamingEndpoint -> naming_remote_map
      [] ep = MediaManagementEndpoint -> mediamanagement_remote_map
      [] ep = MetadataEndpoint -> Metadata_map

\* The GET of the resource of PUT number i that precedes it most closely
\* (0 when there is none), and the object it returned for that resource.
FreshGet(i) ==
    LET gets == {j \in 1..(i - 1) :
                    /\ calls[j].method = "GET" /\ calls[j].ok
                    /\ calls[j].path = <<calls[i].path[1]>>}
    IN  IF gets = {} THEN 0 ELSE CHOOSE j \in gets : \A k \in gets : k <= j

FreshSnapshot(i) ==
    LET resp == calls[FreshGet(i)].resp
    IN  IF calls[i].path[1] = MetadataEndpoint
        THEN resp[CHOOSE k \in DOMAIN resp : resp[k]["id"] = calls[i].path[2]]
        ELSE resp

(***************************************************************************)
(* C1.  General update_remote: when a sub-group reports a change, exactly  *)
(* one GET of /api/v1/config/host, then exactly one PUT to                 *)
(* /api/v1/config/host/{id}, and the result is true; when none does, no    *)
(* API call and the result is false.  (Runs in which the server answers    *)
(* with an error are left out.)                                            *)
(***************************************************************************)
C1_GeneralUpdateOneGetOnePut ==
    (op = "general.update_remote" /\ result # "APIError") =>
        IF GeneralChanged
        THEN /\ Len(calls) = 2
             /\ calls[1].method = "GET" /\ calls[1].path = <<HostEndpoint>>
             /\ calls[2].method = "PUT"
             /\ calls[2].path = <<HostEndpoint, calls[1].resp["id"]>>
             /\ result = "True"
        ELSE calls = << >> /\ result = "False"

(***************************************************************************)
(* C2.  Every PUT of an update_remote carries the freshly fetched snapshot *)
(* of its resource overlaid with remote_attrs: every key of the snapshot   *)
(* that no mapping entry names is in the body with its fetched value.      *)
(***************************************************************************)
C2_PutPassesUnmappedThrough ==
    op \in UpdateOps =>
        \A i \in Calls("PUT") :
            /\ FreshGet(i) # 0
            /\ \A k \in (DOMAIN FreshSnapshot(i))
                            \ RemoteNames(EndpointEntries(calls[i].path[1])) :
                  /\ k \in DOMAIN calls[i].body
                  /\ calls[i].body[k] = FreshSnapshot(i)[k]

LocalObject(ep, e) ==
    CASE ep = HostEndpoint ->
            local.general[
                GeneralGroups[CHOOSE i \in DOMAIN GeneralGroups :
                    \E k \in DOMAIN GeneralMap(GeneralGroups[i]) :
                        GeneralMap(GeneralGroups[i])[k] = e]]
      [] OTHER -> local.media_management

RemoteObject(ep, e) ==
    CASE ep = HostEndpoint ->
            remote.general[
                GeneralGroups[CHOOSE i \in DOMAIN GeneralGroups :
                    \E k \in DOMAIN GeneralMap(GeneralGroups[i]) :
                        GeneralMap(GeneralGroups[i])[k] = e]]
      [] OTHER -> remote.media_management

C4_PutCarriesEveryMappedField ==
    op \in {"general.update_remote", "media_management.update_remote"} =>
        \A i \in Calls("PUT") :
            LET ep == calls[i].path[1]
                map == EndpointEntries(ep)
            IN  \A k \in DOMAIN map :
                    LET e == map[k]
                        self == LocalObject(ep, e)
                        rem == RemoteObject(ep, e)
                    IN  /\ e.remote \in DOMAIN calls[i].body
                        /\ e.root_encoder = "none" =>
                              /\ calls[i].body[e.remote]
                                    = encode_value(e.encoder, self[e.local])
                              /\ self[e.local] = rem[e.local] =>
                                    calls[i].body[e.remote]
                                        = encode_value(e.encoder, rem[e.local])

\* Reached: a PUT of the media management block where recycling_bin differs and
\* the other twelve fields do not.
C4_Witness ==
    /\ op = "media_management.update_remote"
    /\ \E i \in Calls("PUT") :
          /\ calls[i].path[1] = MediaManagementEndpoint
          /\ calls[i].ok
          /\ calls[i].body["recycleBin"] = "/bin"
    /\ remote.media_management.recycling_bin = NoneValue
    /\ \A k \in DOMAIN mediamanagement_remote_map :
          LET ln == mediamanagement_remote_map[k].local
          IN  ln # "recycling_bin" =>
                local.media_management[ln] = remote.media_management[ln]

(***************************************************************************)
(* C5.  No-op stability: when no mapped field differs between the local    *)
(* settings and the remote object, update_remote issues no PUT and returns *)
(* false (general, metadata); naming and media management issue no PUT to  *)
(* their endpoint.  (Runs in which the server answers with an error are    *)
(* left out.)                                                              *)
(***************************************************************************)
PutsTo(ep) == {i \in Calls("PUT") : calls[i].path[1] = ep}

MetadataChanged ==
    \E a \in Range(MetadataAttrs) :
        MapChanged(local.metadata[a], remote.metadata[a], Metadata_map)

C5_NoOpStability ==
    result # "APIError" =>
        /\ (op = "general.update_remote" /\ ~GeneralChanged) =>
              Calls("PUT") = {} /\ result = "False"
        /\ (op = "metadata.update_remote" /\ ~MetadataChanged) =>
              Calls("PUT") = {} /\ result = "False"
        /\ (op = "media_management.update_remote"
            /\ ~MapChanged(local.media_management, remote.media_management,
                           naming_remote_map)) =>
              PutsTo(NamingEndpoint) = {}
        /\ (op = "media_management.update_remote"
            /\ ~MapChanged(local.media_management, remote.media_management,
                           mediamanagement_remote_map)) =>
              PutsTo(MediaManagementEndpoint) = {}

(***************************************************************************)
(* C6.  Idempotence: an update_remote that follows an update_remote which  *)
(* returned, with the same local configuration, on a server nobody else    *)
(* touched and freshly read by from_remote, returns false and issues no    *)
(* PUT, POST or DELETE.  (Runs in which the server answers with an error   *)
(* are left out.)                                                          *)
(***************************************************************************)
C6_SecondPassChangesNothing ==
    (op \in UpdateOps /\ second /\ result # "APIError") =>
        /\ result = "False"
        /\ Calls("PUT") \cup Calls("POST") \cup Calls("DELETE") = {}

(***************************************************************************)
(* C7.  The POSTs of a collection reconciler (tags, root folders) are      *)
(* issued in ascending order of the entry's name.                          *)
(***************************************************************************)
PostedName(i) ==
    IF calls[i].path[1] = TagEndpoint
    THEN calls[i].body["label"] ELSE calls[i].body["path"]

C7_CreationInSortedOrder ==
    op \in {"tags.update_remote", "media_management.update_remote"} =>
        \A i, j \in Calls("POST") :
            i < j => Rank(PostedName(i)) < Rank(PostedName(j))

(***************************************************************************)
(* C8.  Create-if-missing: a collection reconciler that returns has issued *)
(* exactly one POST for every local entry missing from the collection it   *)
(* fetched and none for any other name; it never POSTs an entry that is in *)
(* the fetched collection; the result is true iff a POST was issued (for   *)
(* media management: when no configuration block was written).             *)
(***************************************************************************)
CollectionEndpoint ==
    IF op = "tags.update_remote" THEN TagEndpoint ELSE RootFolderEndpoint

\* The names in the collection the reconciler fetched ({} when it fetched none).
FetchedNames ==
    LET gets == {i \in Calls("GET") :
                    calls[i].ok /\ calls[i].path = <<CollectionEndpoint>>}
        resp == calls[CHOOSE i \in gets : TRUE].resp
    IN  IF gets = {} THEN {}
        ELSE IF CollectionEndpoint = TagEndpoint THEN Labels(resp) ELSE Paths(resp)

Declared ==
    IF op = "tags.update_remote" THEN local.tags.definitions
    ELSE local.media_management.root_folders

C8_CreateIfMissing ==
    op \in {"tags.update_remote", "media_management.update_remote"} =>
        /\ \A i \in Calls("POST") :
              /\ calls[i].path = <<CollectionEndpoint>>
              /\ PostedName(i) \in Declared \ FetchedNames
        /\ Returned =>
              /\ \A n \in Declared \ FetchedNames :
                    Cardinality({i \in Calls("POST") : PostedName(i) = n}) = 1
              /\ Calls("PUT") = {} =>
                    (result = "True" <=> Calls("POST") # {})

\* Reached: a tags update_remote that found one declared tag on the server
\* and created two.
C8_Witness ==
    /\ op = "tags.update_remote"
    /\ result = "True"
    /\ Cardinality(Calls("POST")) = 2
    /\ Declared \cap FetchedNames # {}

(***************************************************************************)
(* C9.  With delete_unmanaged_root_folders false, delete_remote issues no  *)
(* DELETE, whatever the server holds, and a call that returns returns      *)
(* false.                                                                  *)
(***************************************************************************)
C9_NoDeleteWhenNotAsked ==
    (op = "media_management.delete_remote"
     /\ ~local.media_management.delete_unmanaged_root_folders) =>
        /\ Calls("DELETE") = {}
        /\ Returned => result = "False"

\* The root folders delete_remote fetched.
FetchedFolders ==
    LET gets == {i \in Calls("GET") :
                    calls[i].ok /\ calls[i].path = <<RootFolderEndpoint>>}
    IN  IF gets = {} THEN << >> ELSE calls[CHOOSE i \in gets : TRUE].resp

Unmanaged ==
    {i \in DOMAIN FetchedFolders :
        FetchedFolders[i]["path"] \notin local.media_management.root_folders}

\* Reached: delete_remote returned false with unmanaged root folders on the server.
C9_Witness ==
    /\ op = "media_management.delete_remote"
    /\ ~local.media_management.delete_unmanaged_root_folders
    /\ Cardinality(Unmanaged) >= 2
    /\ result = "False"

(***************************************************************************)
(* C10.  With delete_unmanaged_root_folders true, every DELETE of          *)
(* delete_remote is for the id fetched for a root folder whose path is not *)
(* declared locally; a call that returns has deleted each of those exactly *)
(* once, and returns true iff it issued a DELETE.                          *)
(***************************************************************************)
C10_DeletesExactlyTheUnmanaged ==
    (op = "media_management.delete_remote"
     /\ local.media_management.delete_unmanaged_root_folders) =>
        /\ \A i \in Calls("DELETE") :
              /\ calls[i].path[1] = RootFolderEndpoint
              /\ \E k \in Unmanaged : FetchedFolders[k]["id"] = calls[i].path[2]
        /\ Returned =>
              /\ \A k \in Unmanaged :
                    Cardinality({i \in Calls("DELETE") :
                        calls[i].path[2] = FetchedFolders[k]["id"]}) = 1
              /\ result = "True" <=> Calls("DELETE") # {}

\* Reached: delete_remote deleted two root folders and kept the declared one.
C10_Witness ==
    /\ op = "media_management.delete_remote"
    /\ local.media_management.delete_unmanaged_root_folders
    /\ result = "True"
    /\ Cardinality(Calls("DELETE")) = 2
    /\ Cardinality(Unmanaged) = 2
    /\ Len(FetchedFolders) = 3
    /\ Len(server[RootFolderEndpoint]) = 1

(***************************************************************************)
(* C11.  Tags are never deleted: tags update_remote issues no DELETE and   *)
(* no PUT, every tag it fetched is still on the server when it ends, and   *)
(* when every declared tag is among the fetched ones it returns false,     *)
(* whatever other tags the server holds.                                   *)
(***************************************************************************)
FetchedTags ==
    LET gets == {i \in Calls("GET") : calls[i].ok /\ calls[i].path = <<TagEndpoint>>}
    IN  IF gets = {} THEN << >> ELSE calls[CHOOSE i \in gets : TRUE].resp

C11_TagsNeverDeleted ==
    op = "tags.update_remote" =>
        /\ Calls("DELETE") \cup Calls("PUT") = {}
        /\ Range(FetchedTags) \subseteq Range(server[TagEndpoint])
        /\ (Returned /\ Declared \subseteq FetchedNames) => result = "False"

\* Reached: tags update_remote returned false while the server holds tags the
\* local configuration does not declare.
C11_Witness ==
    /\ op = "tags.update_remote"
    /\ result = "False"
    /\ FetchedNames \ Declared # {}
    /\ Declared # {}

(***************************************************************************)
(* C12.  No short-circuit: in the update_remote of general, media          *)
(* management and metadata, once a sub-resolver has reported a change,     *)
(* every sub-resolver of the group is still evaluated, unless the server   *)
(* answers a call with an error.                                           *)
(***************************************************************************)
GroupUpdateOps ==
    {"general.update_remote", "media_management.update_remote",
     "metadata.update_remote"}

SubResolvers ==
    CASE op = "general.update_remote" -> Range(GeneralGroups)
      [] op = "media_management.update_remote" ->
            {NamingEndpoint, MediaManagementEndpoint, RootFolderEndpoint}
      [] op = "metadata.update_remote" ->
            {Implementation[a] : a \in Range(MetadataAttrs)}

Evaluated == {evals[i].name : i \in DOMAIN evals}

C12_EverySubResolverRuns ==
    (op \in GroupUpdateOps /\ result # "APIError"
     /\ \E i \in DOMAIN evals : evals[i].updated) =>
        Evaluated = SubResolvers

(***************************************************************************)
(* C13.  Log everything before writing: within one update_remote of        *)
(* general, media management or metadata, every sub-resolver has computed  *)
(* its decision before the first PUT, POST or DELETE of the call is        *)
(* issued.                                                                 *)
(***************************************************************************)
Mutations == Calls("PUT") \cup Calls("POST") \cup Calls("DELETE")

C13_DecisionsBeforeFirstWrite ==
    op \in GroupUpdateOps =>
        \A i \in DOMAIN evals : \A j \in Mutations : evals[i].at < j

(***************************************************************************)
(* C14.  Independent endpoints: media management update_remote writes the  *)
(* naming configuration only when a naming field changed and the media     *)
(* management configuration only when one of its fields changed; a call    *)
(* that returns has issued one GET and one PUT, the PUT right after the    *)
(* GET, on each endpoint that changed and no call on one that did not.     *)
(***************************************************************************)
GetsOf(ep) == {i \in Calls("GET") : calls[i].path = <<ep>>}

BlockChanged(ep) ==
    MapChanged(local.media_management, remote.media_management,
               EndpointEntries(ep))

C14_IndependentEndpoints ==
    op = "media_management.update_remote" =>
        \A ep \in {NamingEndpoint, MediaManagementEndpoint} :
            /\ ~BlockChanged(ep) => GetsOf(ep) \cup PutsTo(ep) = {}
            /\ (Returned /\ BlockChanged(ep)) =>
                  /\ Cardinality(GetsOf(ep)) = 1
                  /\ Cardinality(PutsTo(ep)) = 1
                  /\ \A i \in PutsTo(ep) : i - 1 \in GetsOf(ep)

\* Reached: only rename_tracks changed, and only the naming endpoint was read
\* and written.
C14_Witness ==
    /\ op = "media_management.update_remote"
    /\ result = "True"
    /\ BlockChanged(NamingEndpoint)
    /\ ~BlockChanged(MediaManagementEndpoint)
    /\ PutsTo(NamingEndpoint) # {}
    /\ PutsTo(MediaManagementEndpoint) = {}

(***************************************************************************)
(* C15.  Fail-fast without rollback: when the server refuses a POST or a   *)
(* DELETE of a collection reconciler (tags, root folders), the handler     *)
(* ends with the API error, the refused call is its last call (no retry,   *)
(* nothing further), the entries created before it are on the server and   *)
(* the entries deleted before it are not, and no call undoes them.         *)
(***************************************************************************)
CollectionOps ==
    {"tags.update_remote", "media_management.update_remote",
     "media_management.delete_remote"}

RefusedWrites ==
    {i \in Calls("POST") \cup Calls("DELETE") : ~calls[i].ok}

ServerNames(ep) ==
    IF ep = TagEndpoint THEN Labels(server[ep]) ELSE Paths(server[ep])

ServerIds(ep) == {server[ep][i]["id"] : i \in DOMAIN server[ep]}

C15_FailFastNoRollback ==
    (op \in CollectionOps /\ RefusedWrites # {}) =>
        /\ result = "APIError"
        /\ RefusedWrites = {Len(calls)}
        /\ \A j \in Calls("POST") :
              calls[j].ok => PostedName(j) \in ServerNames(calls[j].path[1])
        /\ \A j \in Calls("DELETE") :
              calls[j].ok => calls[j].path[2] \notin ServerIds(calls[j].path[1])
        /\ Calls("POST") = {} \/ Calls("DELETE") = {}

\* Reached: two tags were created and are on the server, and the POST of the
\* third was refused.
C15_Witness ==
    /\ op = "tags.update_remote"
    /\ result = "APIError"
    /\ Cardinality({j \in Calls("POST") : calls[j].ok}) = 2
    /\ ~calls[Len(calls)].ok /\ calls[Len(calls)].method = "POST"
    /\ Cardinality(ServerNames(TagEndpoint)) = 2

(***************************************************************************)
(* The attribute codec on its own: a value of a mapped field is taken      *)
(* through the entry's encoder and then its decoder (a local value), or    *)
(* through the decoder and then the encoder (a remote value).              *)
(***************************************************************************)
\* The mapping entries that have no root_encoder.
CodecEntries ==
    {e \in Range(EndpointEntries(HostEndpoint)) \cup Range(naming_remote_map)
            \cup Range(mediamanagement_remote_map) \cup Range(Metadata_map) :
        e.root_encoder = "none"}

\* Values the local field of an entry can hold.
LocalValues(e) ==
    CASE e.encoder = "default" -> BOOLEAN
      [] e.encoder = "str" -> {"*", "127.0.0.1"}
      [] e.encoder = "enum" -> DOMAIN EnumValue
      [] e.encoder \in {"or_empty", "secret_or_empty"} -> {NoneValue, "", "/lidarr"}
      [] e.encoder = "join" -> SUBSET {"a", "b"}

\* Values the server can hold in the remote field of an entry.
RemoteValues(e) ==
    CASE e.decoder = "default" ->
            IF e.encoder = "str" THEN {"*", "127.0.0.1"} ELSE BOOLEAN
      [] e.decoder = "enum" -> Range(EnumValue)
      [] e.decoder = "or_none" -> {"", "/lidarr"}
      [] e.decoder = "split" ->
            {<<"">>, <<"a">>, <<"a", "b">>, <<"b", "a">>, <<" a">>}

CodecInit ==
    /\ group = "general"
    /\ local = LocalDefaults
    /\ server = ServerDefaults
    /\ remote = LocalDefaults
    /\ phase = "codec"
    /\ op = "none"
    /\ calls = << >>
    /\ result = "none"
    /\ pass = 0
    /\ touched = FALSE
    /\ settled = FALSE
    /\ second = FALSE
    /\ evals = << >>
    /\ \E e \in CodecEntries :
          \/ \E x \in LocalValues(e) :
                codec = [step |-> "input", entry |-> e, side |-> "local", x |-> x]
          \/ \E y \in RemoteValues(e) :
                codec = [step |-> "input", entry |-> e, side |-> "remote", x |-> y]

CodecPassive ==
    UNCHANGED <<group, local, server, remote, phase, op, calls, result, pass,
                touched, settled, second, evals>>

\* The first conversion: the encoder for a local value, the decoder for a remote one.
CodecFirst ==
    /\ codec.step = "input"
    /\ codec' = [step |-> "first", entry |-> codec.entry, side |-> codec.side,
                 x |-> codec.x,
                 y |-> IF codec.side = "local"
                       THEN encode_value(codec.entry.encoder, codec.x)
                       ELSE decode_value(codec.entry.decoder, codec.x)]
    /\ CodecPassive

\* The second conversion brings the value back to the side it came from.
CodecSecond ==
    /\ codec.step = "first"
    /\ codec' = [step |-> "second", entry |-> codec.entry, side |-> codec.side,
                 x |-> codec.x, y |-> codec.y,
                 z |-> IF codec.side = "local"
                       THEN decode_value(codec.entry.decoder, codec.y)
                       ELSE encode_value(codec.entry.encoder, codec.y)]
    /\ CodecPassive

CodecNext == CodecFirst \/ CodecSecond

CodecSpec == CodecInit /\ [][CodecNext]_vars

(***************************************************************************)
(* C16.  Codec round trip: for every mapping entry without a root_encoder, *)
(* decoding the encoding of a local value gives that value back, and       *)
(* encoding the decoding of a remote value gives that value back.          *)
(***************************************************************************)
C16_CodecRoundTrip ==
    codec.step = "second" => codec.z = codec.x

(***************************************************************************)
(* C17.  Missing remote field: from_remote of general and media management *)
(* ends with MissingRemoteField, and hands no settings object to the       *)
(* driver, when a fetched object lacks a mapped field other than the       *)
(* security username, password and passwordConfirmation; when it lacks     *)
(* only those, from_remote succeeds and the local fields are None.  (Runs  *)
(* in which the server answers with an error are left out.)                *)
(***************************************************************************)
OptionalRemoteFields == {"username", "password", "passwordConfirmation"}

\* The GETs of a singleton resource whose response lacks a mandatory mapped field.
LackingGets ==
    {i \in Calls("GET") :
        /\ calls[i].ok
        /\ calls[i].path[1] \in SingletonEndpoints
        /\ \E rn \in RemoteNames(EndpointEntries(calls[i].path[1]))
                        \ OptionalRemoteFields :
              rn \notin DOMAIN calls[i].resp}

C17_MissingRemoteField ==
    (op \in {"general.from_remote", "media_management.from_remote"}
     /\ result # "APIError") =>
        IF LackingGets # {}
        THEN /\ result = "MissingRemoteField"
             /\ phase = "aborted"
             /\ LackingGets = {Len(calls)}
        ELSE /\ result = "ok"
             /\ op = "general.from_remote" =>
                   \A k \in DOMAIN SecurityGeneralSettings_remote_map :
                       LET e == SecurityGeneralSettings_remote_map[k]
                       IN  e.remote \notin DOMAIN calls[1].resp =>
                              remote.general.security[e.local] = NoneValue

\* Reached: a host configuration without username, password and
\* passwordConfirmation was decoded.
C17_Witness ==
    /\ op = "general.from_remote"
    /\ result = "ok"
    /\ OptionalRemoteFields \cap DOMAIN calls[1].resp = {}
    /\ remote.general.logging.log_level = "DEBUG"

\* Reached: a host configuration without logLevel was refused.
C17_Refused ==
    /\ op = "general.from_remote"
    /\ result = "MissingRemoteField"
    /\ "logLevel" \notin DOMAIN calls[1].resp

(***************************************************************************)
(* C18.  Corrupt remote metadata: when the list fetched from                *)
(* /api/v1/metadata has no entry for one of the three implementations,     *)
(* from_remote and update_remote of the metadata settings end with         *)
(* RuntimeError after that GET, without a PUT, whatever the entries that   *)
(* are present hold.                                                       *)
(***************************************************************************)
MetadataOps == {"metadata.from_remote", "metadata.update_remote"}

FetchedMetadataCorrupt ==
    /\ Len(calls) >= 1
    /\ calls[1].ok
    /\ \E a \in Range(MetadataAttrs) : ~HasMetadata(calls[1].resp, Implementation[a])

C18_CorruptMetadataIsFatal ==
    (op \in MetadataOps /\ FetchedMetadataCorrupt) =>
        /\ result = "RuntimeError"
        /\ phase = "aborted"
        /\ Len(calls) = 1
        /\ Calls("PUT") = {}

\* Reached: update_remote found the Roksbox entry gone while the Kodi entry, which
\* is there, differs from the local configuration.
C18_Witness ==
    /\ op = "metadata.update_remote"
    /\ result = "RuntimeError"
    /\ HasMetadata(calls[1].resp, "XbmcMetadata")
    /\ FindMetadata(calls[1].resp, "XbmcMetadata")["enable"]
          # local.metadata.kodi_emby.enable

(***************************************************************************)
(* C19.  An API error is a hard stop: when the server answers a call of an *)
(* update_remote with an error, the handler ends with that error and the   *)
(* refused call is the last call it issued.                                *)
(***************************************************************************)
RefusedCalls == {i \in DOMAIN calls : ~calls[i].ok}

C19_ApiErrorIsHardStop ==
    (op \in UpdateOps /\ RefusedCalls # {}) =>
        /\ result = "APIError"
        /\ phase = "aborted"
        /\ RefusedCalls = {Len(calls)}

\* Reached: the naming PUT was refused while the media management block had
\* changed and a root folder was to be created; nothing followed.
C19_Witness ==
    /\ op = "media_management.update_remote"
    /\ result = "APIError"
    /\ Len(calls) = 2
    /\ calls[2].method = "PUT" /\ calls[2].path[1] = NamingEndpoint
    /\ BlockChanged(MediaManagementEndpoint)
    /\ local.media_management.root_folders
          \ Paths(server[RootFolderEndpoint]) # {}

(***************************************************************************)
(* C20.  from_remote is read-only: a from_remote step of any settings      *)
(* group issues GET calls only and leaves the server as it was.            *)
(***************************************************************************)
FromRemoteOps ==
    {"general.from_remote", "media_management.from_remote",
     "tags.from_remote", "metadata.from_remote"}

\* A step of the driver that runs a from_remote handler (it starts a pass).
FromRemoteStep == pass' = pass + 1 /\ op' \in FromRemoteOps

C20_FromRemoteReadOnly ==
    [][FromRemoteStep =>
          /\ server' = server
          /\ \A i \in DOMAIN calls' : calls'[i].method = "GET"]_vars

\* Reached: from_remote of the media management settings read its three
\* resources from a server that holds root folders.
C20_Witness ==
    /\ op = "media_management.from_remote"
    /\ result = "ok"
    /\ Len(calls) = 3
    /\ server[RootFolderEndpoint] # << >>
    /\ remote.media_management.root_folders = Paths(server[RootFolderEndpoint])

(***************************************************************************)
(* C21.  Metadata update: when the enable flag of a metadata definition    *)
(* differs between the local and the remote settings, update_remote ends   *)
(* without an exception and returns true, and has issued exactly one PUT   *)
(* to /api/v1/metadata/{id} of that definition, whose body is the fetched  *)
(* entry with enable set to the local value; a definition whose flag is    *)
(* equal gets no PUT.  (Runs in which the server answers with an error or  *)
(* the fetched list is corrupt are left out.)                              *)
(***************************************************************************)
DefinitionChanged(a) ==
    MapChanged(local.metadata[a], remote.metadata[a], Metadata_map)

\* The PUTs to the entry of the fetched list that belongs to definition a.
DefinitionPuts(a) ==
    {i \in PutsTo(MetadataEndpoint) :
        calls[i].path[2] = FindMetadata(calls[1].resp, Implementation[a])["id"]}

C21_MetadataUpdateCompletes ==
    (op = "metadata.update_remote" /\ result # "APIError"
     /\ Len(calls) >= 1 /\ ~FetchedMetadataCorrupt) =>
        /\ Returned
        /\ MetadataChanged => result = "True"
        /\ \A a \in Range(MetadataAttrs) :
              IF DefinitionChanged(a)
              THEN /\ Cardinality(DefinitionPuts(a)) = 1
                   /\ \A i \in DefinitionPuts(a) :
                         calls[i].body =
                            [FindMetadata(calls[1].resp, Implementation[a])
                                EXCEPT !["enable"] = local.metadata[a].enable]
              ELSE DefinitionPuts(a) = {}

(***************************************************************************)
(* C22.  Collection reconcilers decide on the collection they fetch, not   *)
(* on the remote settings object passed in: a declared entry that is in    *)
(* the fetched collection is never POSTed, and in a call that returns a    *)
(* declared entry that is not in it is POSTed, whatever the remote object  *)
(* says about either.                                                      *)
(***************************************************************************)
\* The entries of the collection according to the remote object passed in.
RemoteArgNames ==
    IF op = "tags.update_remote" THEN remote.tags.definitions
    ELSE remote.media_management.root_folders

PostsOf(n) == {i \in Calls("POST") : PostedName(i) = n}

C22_DecidesOnFreshFetch ==
    op \in {"tags.update_remote", "media_management.update_remote"} =>
        \A n \in Declared :
            /\ n \in FetchedNames => PostsOf(n) = {}
            /\ (Returned /\ n \notin FetchedNames) => PostsOf(n) # {}

\* Reached: a declared tag the remote object lists had been removed from the
\* server, and was created.
C22_Witness ==
    /\ op = "tags.update_remote"
    /\ Returned
    /\ \E n \in Declared :
          n \in RemoteArgNames /\ n \notin FetchedNames /\ PostsOf(n) # {}

\* Reached: a declared root folder the remote object lacks had appeared on the
\* server, and was not created again.
C22_NotCreatedAgain ==
    /\ op = "media_management.update_remote"
    /\ Returned
    /\ \E n \in Declared :
          n \notin RemoteArgNames /\ n \in FetchedNames /\ PostsOf(n) = {}

(***************************************************************************)
(* C23.  Creating and deleting root folders are separate phases: media     *)
(* management update_remote never issues a DELETE, and delete_remote never *)
(* issues a POST or a PUT.                                                 *)
(***************************************************************************)
C23_CreateAndDeleteSeparated ==
    /\ op = "media_management.update_remote" => Calls("DELETE") = {}
    /\ op = "media_management.delete_remote" =>
          Calls("POST") \cup Calls("PUT") = {}

\* Reached: update_remote returned with delete_unmanaged_root_folders set while
\* the root folders it fetched include one that is not declared.
C23_Witness ==
    /\ op = "media_management.update_remote"
    /\ Returned
    /\ local.media_management.delete_unmanaged_root_folders
    /\ FetchedNames \ Declared # {}
    /\ Calls("POST") # {}

(***************************************************************************)
(* C24.  Identifier consistency: in every PUT of an update_remote the id   *)
(* in the path, the "id" of the body and the id of the snapshot fetched    *)
(* for the resource are the same, and no mapping table of the resource     *)
(* has an entry for "id".                                                  *)
(***************************************************************************)
C24_IdConsistency ==
    op \in UpdateOps =>
        \A i \in Calls("PUT") :
            /\ "id" \in DOMAIN calls[i].body
            /\ calls[i].path[2] = calls[i].body["id"]
            /\ FreshGet(i) # 0
            /\ calls[i].body["id"] = FreshSnapshot(i)["id"]
            /\ "id" \notin RemoteNames(EndpointEntries(calls[i].path[1]))

\* Reached: the host configuration was written under the id another client had
\* given it after from_remote.
C24_Witness ==
    /\ op = "general.update_remote"
    /\ result = "True"
    /\ touched
    /\ \E i \in Calls("PUT") : calls[i].path = <<HostEndpoint, 2>>

(***************************************************************************)
(* C25.  Password confirmation mirrors the password: for every local       *)
(* configuration, with the password set or unset, a general update_remote  *)
(* that has a change to write issues its PUT to /api/v1/config/host, and   *)
(* in the body of every such PUT passwordConfirmation equals password,     *)
(* both being the encoded local security.password.  (Runs in which the     *)
(* server answers with an error are left out.)                             *)
(***************************************************************************)
C25_PasswordConfirmationMirrors ==
    (op = "general.update_remote" /\ result # "APIError") =>
        /\ GeneralChanged => PutsTo(HostEndpoint) # {}
        /\ \A i \in PutsTo(HostEndpoint) :
              /\ calls[i].body["passwordConfirmation"] = calls[i].body["password"]
              /\ calls[i].body["password"] =
                    encode_value("secret_or_empty", local.general.security.password)

\* The same for the configurations that set a password.
C25_MirrorsWhenPasswordSet ==
    local.general.security.password # NoneValue => C25_PasswordConfirmationMirrors

====
